---- MODULE Spec2Model ----
(***************************************************************************)
(* A model of fetch_commits.py: one run of main(), from the configuration  *)
(* check to the process exit.  Every HTTP request is one step; the remote  *)
(* API is the environment and answers each request with a status and a     *)
(* page chosen from a small set.                                           *)
(***************************************************************************)
EXTENDS Integers, Sequences, FiniteSets, TLC

(***************************************************************************)
(* Bounds of the model and constants of the program.                       *)
(***************************************************************************)
\* The API answers with full pages only below this page number.
MaxPages == 2
\* "per_page": 100 of both listings, also the length below which a page is short.
PerPage == 100
\* len(sys.argv) that main accepts.
Argc == 3

(***************************************************************************)
(* Text.  A string is a sequence of one-character strings, so that parsing *)
(* and comparing work on the characters.                                   *)
(***************************************************************************)
Digits == {"0", "1", "2", "3", "4", "5", "6", "7", "8", "9"}

DigitVal(c) ==
    CASE c = "0" -> 0 [] c = "1" -> 1 [] c = "2" -> 2 [] c = "3" -> 3
      [] c = "4" -> 4 [] c = "5" -> 5 [] c = "6" -> 6 [] c = "7" -> 7
      [] c = "8" -> 8 [] c = "9" -> 9

RECURSIVE NumVal(_)
NumVal(s) ==
    IF s = <<>> THEN 0
    ELSE NumVal(SubSeq(s, 1, Len(s) - 1)) * 10 + DigitVal(s[Len(s)])

AllDigits(s) == \A k \in 1..Len(s) : s[k] \in Digits

\* %Y of strptime: \d\d\d\d
MatchesY(s) == Len(s) = 4 /\ AllDigits(s)

\* %m of strptime: 1[0-2]|0[1-9]|[1-9]
MatchesM(s) ==
    \/ Len(s) = 2 /\ s[1] = "1" /\ s[2] \in {"0", "1", "2"}
    \/ Len(s) = 2 /\ s[1] = "0" /\ s[2] \in Digits \ {"0"}
    \/ Len(s) = 1 /\ s[1] \in Digits \ {"0"}

\* %d of strptime: 3[0-1]|[1-2]\d|0[1-9]|[1-9]| [1-9]
MatchesD(s) ==
    \/ Len(s) = 2 /\ s[1] = "3" /\ s[2] \in {"0", "1"}
    \/ Len(s) = 2 /\ s[1] \in {"1", "2"} /\ s[2] \in Digits
    \/ Len(s) = 2 /\ s[1] = "0" /\ s[2] \in Digits \ {"0"}
    \/ Len(s) = 1 /\ s[1] \in Digits \ {"0"}
    \/ Len(s) = 2 /\ s[1] = " " /\ s[2] \in Digits \ {"0"}

\* The digits of a day token (" 5" is day 5).
DayDigits(s) == IF s[1] = " " THEN SubSeq(s, 2, Len(s)) ELSE s

IsLeap(y) == (y % 4 = 0 /\ y % 100 # 0) \/ y % 400 = 0

DaysInMonth(y, m) ==
    IF m = 2 THEN (IF IsLeap(y) THEN 29 ELSE 28)
    ELSE IF m \in {4, 6, 9, 11} THEN 30 ELSE 31

\* datetime.strptime(s, "%Y-%m-%d") returns (TRUE) or raises ValueError (FALSE):
\* the whole string must match the format and name a date of the calendar.
StrptimeYmd(s) ==
    \E a \in 1..2, b \in 1..2 :
        /\ Len(s) = 4 + 1 + a + 1 + b
        /\ MatchesY(SubSeq(s, 1, 4))
        /\ s[5] = "-"
        /\ MatchesM(SubSeq(s, 6, 5 + a))
        /\ s[6 + a] = "-"
        /\ MatchesD(SubSeq(s, 7 + a, Len(s)))
        /\ NumVal(SubSeq(s, 1, 4)) >= 1
        /\ NumVal(DayDigits(SubSeq(s, 7 + a, Len(s))))
              <= DaysInMonth(NumVal(SubSeq(s, 1, 4)), NumVal(SubSeq(s, 6, 5 + a)))

(***************************************************************************)
(* Inputs of a run: the environment values and the command line.           *)
(***************************************************************************)
\* os.getenv: "" stands for an unset or empty value (both are falsy).
TokenValues == {"", "ghp_t"}
UserValues == {"", "octo"}

Prog == <<"f">>
Jan01 == <<"2", "0", "2", "4", "-", "0", "1", "-", "0", "1">>
Jan31 == <<"2", "0", "2", "4", "-", "0", "1", "-", "3", "1">>
Jan5Short == <<"2", "0", "2", "4", "-", "1", "-", "5">>
Feb30 == <<"2", "0", "2", "4", "-", "0", "2", "-", "3", "0">>
Slashes == <<"2", "0", "2", "4", "/", "0", "1", "/", "0", "1">>

\* sys.argv of the runs considered.
Argvs ==
    { <<Prog>>, <<Prog, Jan01>>, <<Prog, Jan01, Jan31>>, <<Prog, Jan5Short, Jan31>>,
      <<Prog, Jan01, Feb30>>, <<Prog, Slashes, Jan31>>, <<Prog, Jan01, Jan31, Jan31>> }

(***************************************************************************)
(* The remote API.                                                         *)
(***************************************************************************)
\* Status codes the API answers with.
OK == 200
Unauthorized == 401

\* What GET /user may answer.
ValidateStatuses == {OK, Unauthorized, 500}
\* An answer that is an error: the body is not read.
ErrorAnswer(st) == [status |-> st, body |-> <<>>]

\* A repository as /user/repos returns it.
RA == [full_name |-> "o/a", private |-> FALSE, html_url |-> "https://h/o/a"]
RB == [full_name |-> "o/b", private |-> TRUE, html_url |-> "https://h/o/b"]
RF == [full_name |-> "o/f", private |-> TRUE, html_url |-> "https://h/o/f"]

\* Short pages of the repository listing; the same repository may come twice.
ShortRepoPages == { <<>>, <<RA, RB>>, <<RA, RA>> }
FullRepoPage == [k \in 1..PerPage |-> RF]

\* A committer date "YYYY-MM-DDTHH:MM:SSZ".
T0109 == <<"2", "0", "2", "4", "-", "0", "1", "-", "0", "9", "T",
           "1", "0", ":", "0", "0", ":", "0", "0", "Z">>
T0110 == <<"2", "0", "2", "4", "-", "0", "1", "-", "1", "0", "T",
           "0", "9", ":", "0", "0", ":", "0", "0", "Z">>

\* The k-th commit of page p of the listing asked for the i-th enumerated
\* repository.  src is not data of the API: it records which listing returned
\* the commit.
ApiCommit(i, p, k, date) ==
    [sha |-> <<p, k>>, date |-> date, src |-> i]

ShortDatePages ==
    { <<>>, <<T0110, T0109>>, <<T0109, T0110>> }

ShortCommitPages(i, p) ==
    { [k \in 1..Len(ds) |-> ApiCommit(i, p, k, ds[k])] : ds \in ShortDatePages }

FullCommitPage(i, p) ==
    [k \in 1..PerPage |-> ApiCommit(i, p, k, IF k % 2 = 1 THEN T0110 ELSE T0109)]

\* What the API may answer to page p of /user/repos: [status, body].
RepoAnswers(p) ==
    {ErrorAnswer(500)}
      \cup {[status |-> OK, body |-> b] : b \in ShortRepoPages}
      \cup (IF p < MaxPages THEN {[status |-> OK, body |-> FullRepoPage]} ELSE {})

\* What the API may answer to page p of the commits of the i-th repository.
\* The token has no access to o/f.
CommitAnswers(repo, i, p) ==
    IF repo.full_name = RF.full_name
    THEN {ErrorAnswer(404)}
    ELSE {ErrorAnswer(404)}
           \cup {[status |-> OK, body |-> b] : b \in ShortCommitPages(i, p)}
           \cup (IF p < MaxPages THEN {[status |-> OK, body |-> FullCommitPage(i, p)]}
                 ELSE {})

(***************************************************************************)
(* The functions of the program.                                           *)
(***************************************************************************)
\* validate_token taking 401 for a valid token.
validate_token_401(status) ==
    IF status = OK \/ status = Unauthorized THEN [valid |-> TRUE, result |-> "login"]
    ELSE [valid |-> FALSE, result |-> "Error: status"]

\* validate_token: (valid, result) from the status of GET /user.
validate_token(status) ==
    IF status = OK THEN [valid |-> TRUE, result |-> "login"]
    ELSE IF status = Unauthorized THEN [valid |-> FALSE, result |-> "Invalid token"]
    ELSE [valid |-> FALSE, result |-> "Error: status"]

\* repos_step returning an empty list on an error.
repos_step_reset(acc, pg, ans) ==
    IF ans.status # OK THEN [items |-> <<>>, page |-> pg, done |-> TRUE]
    ELSE IF ans.body = <<>> THEN [items |-> acc, page |-> pg, done |-> TRUE]
    ELSE IF Len(ans.body) < PerPage
         THEN [items |-> acc \o ans.body, page |-> pg, done |-> TRUE]
    ELSE [items |-> acc \o ans.body, page |-> pg + 1, done |-> FALSE]

\* One turn of the loop of get_all_repositories on the answer to a request:
\* the list so far, the next page, and whether the loop is left.
repos_step(acc, pg, ans) ==
    IF ans.status # OK THEN [items |-> acc, page |-> pg, done |-> TRUE]
    ELSE IF ans.body = <<>> THEN [items |-> acc, page |-> pg, done |-> TRUE]
    ELSE IF Len(ans.body) < PerPage
         THEN [items |-> acc \o ans.body, page |-> pg, done |-> TRUE]
    ELSE [items |-> acc \o ans.body, page |-> pg + 1, done |-> FALSE]

\* commits_step leaving the loop on a short page before adding it.
commits_step_early(acc, pg, ans) ==
    IF ans.status # OK THEN [items |-> acc, page |-> pg, done |-> TRUE]
    ELSE IF Len(ans.body) < PerPage THEN [items |-> acc, page |-> pg, done |-> TRUE]
    ELSE [items |-> acc \o ans.body, page |-> pg + 1, done |-> FALSE]

\* commits_step returning an empty list on an error.
commits_step_reset(acc, pg, ans) ==
    IF ans.status # OK THEN [items |-> <<>>, page |-> pg, done |-> TRUE]
    ELSE IF ans.body = <<>> THEN [items |-> acc, page |-> pg, done |-> TRUE]
    ELSE IF Len(ans.body) < PerPage
         THEN [items |-> acc \o ans.body, page |-> pg, done |-> TRUE]
    ELSE [items |-> acc \o ans.body, page |-> pg + 1, done |-> FALSE]

\* One turn of the loop of get_commits_from_repo on the answer to a request.
commits_step(acc, pg, ans) ==
    IF ans.status # OK THEN [items |-> acc, page |-> pg, done |-> TRUE]
    ELSE IF ans.body = <<>> THEN [items |-> acc, page |-> pg, done |-> TRUE]
    ELSE IF Len(ans.body) < PerPage
         THEN [items |-> acc \o ans.body, page |-> pg, done |-> TRUE]
    ELSE [items |-> acc \o ans.body, page |-> pg + 1, done |-> FALSE]

\* commit['repository'] = {...}: the commit with the key "repository" added.
WithRepository(c, repo) ==
    [sha |-> c.sha, date |-> c.date, src |-> c.src,
     repository |-> [full_name |-> repo.full_name, private |-> repo.private,
                     url |-> repo.html_url]]

\* TagCommits with the assignment after the loop: the last commit gets the tag.
TagCommits_last(cs, repo) ==
    [k \in 1..Len(cs) |-> IF k = Len(cs) THEN WithRepository(cs[k], repo) ELSE cs[k]]

\* fetch_all_commits, lines 128-133: every commit of the list gets the tag.
TagCommits(cs, repo) == [k \in 1..Len(cs) |-> WithRepository(cs[k], repo)]

\* repo_commit_count[repo_name] = n on a dict, which keeps its keys in the
\* order of their first insertion: a sequence of [name, count].
SetCount(rc, name, n) ==
    IF \E k \in 1..Len(rc) : rc[k].name = name
    THEN [k \in 1..Len(rc) |-> IF rc[k].name = name THEN [name |-> name, count |-> n]
                                ELSE rc[k]]
    ELSE Append(rc, [name |-> name, count |-> n])

\* ord() of the characters of dates and timestamps.
Ord(c) ==
    CASE c = " " -> 32 [] c = "-" -> 45 [] c = "/" -> 47 [] c = ":" -> 58
      [] c = "T" -> 84 [] c = "Z" -> 90 [] OTHER -> 48 + DigitVal(c)

\* a < b on Python strings: by the first character that differs, a proper
\* prefix being smaller.
StrLess(a, b) ==
    \E k \in 1..Len(b) :
        /\ k <= Len(a) + 1
        /\ \A j \in 1..(k - 1) : a[j] = b[j]
        /\ (k > Len(a) \/ Ord(a[k]) < Ord(b[k]))

DateKey(c) == c.date

\* The largest of a non-empty set of strings.
MaxStr(S) == CHOOSE m \in S : \A x \in S : ~StrLess(m, x)

\* list.sort(key=date, reverse=True) is stable: the commits of the largest key
\* in their order, then those of the next key, and so on.
RECURSIVE SortByKeys(_, _)
SortByKeys(cs, keys) ==
    IF keys = {} THEN <<>>
    ELSE LET m == MaxStr(keys) IN
         SelectSeq(cs, LAMBDA c : DateKey(c) = m) \o SortByKeys(cs, keys \ {m})

\* The sort without reverse=True: the smallest key first.
RECURSIVE SortByKeysAscending(_, _)
SortByKeysAscending(cs, keys) ==
    IF keys = {} THEN <<>>
    ELSE LET m == MaxStr(keys) IN
         SortByKeysAscending(cs, keys \ {m}) \o SelectSeq(cs, LAMBDA c : DateKey(c) = m)

SortCommits_ascending(cs) ==
    SortByKeysAscending(cs, {DateKey(cs[k]) : k \in 1..Len(cs)})

\* fetch_all_commits, line 142.
SortCommits(cs) == SortByKeys(cs, {DateKey(cs[k]) : k \in 1..Len(cs)})

\* The export menu offered whatever was found.
ExportMenuShown_always(cs) == TRUE

\* main, line 329: the export menu is offered when there are commits.
ExportMenuShown(cs) == cs # <<>>

\* strptime(date, "%Y-%m-%dT%H:%M:%SZ").strftime("%Y-%m-%d %H:%M") on a
\* timestamp of that format.
FormatDate(d) == SubSeq(d, 1, 10) \o <<" ">> \o SubSeq(d, 12, 16)

\* sorted(repo_commit_count.items(), key=count, reverse=True): stable.
RECURSIVE SortByCounts(_, _)
SortByCounts(rc, counts) ==
    IF counts = {} THEN <<>>
    ELSE LET m == CHOOSE x \in counts : \A y \in counts : y <= x IN
         SelectSeq(rc, LAMBDA e : e.count = m) \o SortByCounts(rc, counts \ {m})

SortedCounts(rc) == SortByCounts(rc, {rc[k].count : k \in 1..Len(rc)})

\* export_to_csv: the header and one row for each commit.
export_to_csv(cs) ==
    <<[kind |-> "header"]>> \o
    [k \in 1..Len(cs) |->
        [kind |-> "row", Date |-> cs[k].date,
         Repository |-> cs[k].repository.full_name,
         Private |-> IF cs[k].repository.private THEN "Yes" ELSE "No",
         SHA |-> cs[k].sha]]

\* export_to_markdown, lines 219-228: what is written before the commits.
MarkdownHead(cs, rc, start, end) ==
    << [kind |-> "title"],
       [kind |-> "period", start |-> start, end |-> end],
       [kind |-> "total", n |-> Len(cs)],
       [kind |-> "repositories", n |-> Len(rc)],
       [kind |-> "summary"] >>
    \o [k \in 1..Len(rc) |->
          [kind |-> "count", repo |-> SortedCounts(rc)[k].name,
           n |-> SortedCounts(rc)[k].count]]
    \o << [kind |-> "detailed"] >>

\* MarkdownCommit without current_repo = repo_name.
MarkdownCommit_forgetful(c, cur) ==
    LET repo_name == c.repository.full_name
        line == [kind |-> "commit", sha |-> c.sha, date |-> FormatDate(c.date)]
    IN  IF <<repo_name>> # cur
        THEN [out |-> << [kind |-> "heading", repo |-> repo_name,
                          private |-> c.repository.private], line >>,
              cur |-> cur]
        ELSE [out |-> <<line>>, cur |-> cur]

\* export_to_markdown, lines 232-249: the body of the loop for commit c,
\* current_repo being cur (<<>> for None, <<name>> for a name): what is
\* written, and current_repo afterwards.  A heading is a "###" line.
MarkdownCommit(c, cur) ==
    LET repo_name == c.repository.full_name
        line == [kind |-> "commit", sha |-> c.sha, date |-> FormatDate(c.date)]
    IN  IF <<repo_name>> # cur
        THEN [out |-> << [kind |-> "heading", repo |-> repo_name,
                          private |-> c.repository.private], line >>,
              cur |-> <<repo_name>>]
        ELSE [out |-> <<line>>, cur |-> cur]

\* export_to_markdown, lines 230-249: the loop over the commits lo..hi, run
\* as the first half followed by the second half.
RECURSIVE MarkdownLoop(_, _, _, _)
MarkdownLoop(cs, lo, hi, cur) ==
    IF lo > hi THEN [out |-> <<>>, cur |-> cur]
    ELSE IF lo = hi THEN MarkdownCommit(cs[lo], cur)
    ELSE LET mid == (lo + hi) \div 2
             first == MarkdownLoop(cs, lo, mid, cur)
             second == MarkdownLoop(cs, mid + 1, hi, first.cur)
         IN  [out |-> first.out \o second.out, cur |-> second.cur]

\* export_to_markdown: the writes to the file, in order.
export_to_markdown(cs, rc, start, end) ==
    MarkdownHead(cs, rc, start, end) \o MarkdownLoop(cs, 1, Len(cs), <<>>).out

\* The answers to the export menu.
Choices == {"1", "2", "3", "4", "x"}

(***************************************************************************)
(* State.                                                                  *)
(***************************************************************************)
VARIABLES
    pc,                 \* where main is
    token,              \* GITHUB_TOKEN
    username,           \* USERNAME
    argv,               \* sys.argv
    exit_code,          \* the exit code, once pc = "exit" (0 until then)
    console,            \* the messages printed that tell the runs apart
    reqs,               \* every HTTP request so far, with its answer
    repos,              \* repos of get_all_repositories, then of fetch_all_commits
    page,               \* page of the listing in progress
    i,                  \* the repository the for loop of fetch_all_commits is at
    commits,            \* commits of get_commits_from_repo
    all_commits,        \* all_commits of fetch_all_commits, commits of main
    repo_commit_count,  \* repo_commit_count
    csvfile,            \* the rows of the CSV file, <<>> when not written
    mdfile              \* the writes to the Markdown file, <<>> when not written

vars == <<pc, token, username, argv, exit_code, console, reqs, repos, page, i,
          commits, all_commits, repo_commit_count, csvfile, mdfile>>

inputs == <<token, username, argv>>
fetched == <<repos, i, commits, all_commits, repo_commit_count>>
files == <<csvfile, mdfile>>

\* A request on the wire with its answer: kind is "user", "repos" or
\* "commits", repo the position of the repository asked about (0 for none).
Request(kind, r, p, ans) ==
    [kind |-> kind, repo |-> r, page |-> p, status |-> ans.status, body |-> ans.body]

Init ==
    /\ pc = "config"
    /\ token \in TokenValues
    /\ username \in UserValues
    /\ argv \in Argvs
    /\ exit_code = 0
    /\ console = <<>>
    /\ reqs = <<>>
    /\ repos = <<>>
    /\ page = 1
    /\ i = 1
    /\ commits = <<>>
    /\ all_commits = <<>>
    /\ repo_commit_count = <<>>
    /\ csvfile = <<>>
    /\ mdfile = <<>>

\* main, lines 279-292: the configuration check.
CheckConfig ==
    /\ pc = "config"
    /\ IF token = "" \/ username = ""
       THEN /\ pc' = "exit"
            /\ exit_code' = 1
            /\ console' = Append(console, "ERROR: configure")
       ELSE /\ pc' = "validate"
            /\ UNCHANGED <<exit_code, console>>
    /\ UNCHANGED <<inputs, reqs, page, fetched, files>>

\* main, lines 294-301: validate_token and the exit on an invalid token.
ValidateToken ==
    /\ pc = "validate"
    /\ \E st \in ValidateStatuses :
          LET r == validate_token(st) IN
          /\ reqs' = Append(reqs, Request("user", 0, 0, ErrorAnswer(st)))
          /\ IF r.valid
             THEN /\ pc' = "argc"
                  /\ console' = Append(console, "Authenticated")
                  /\ UNCHANGED exit_code
             ELSE /\ pc' = "exit"
                  /\ exit_code' = 1
                  /\ console' = Append(console, r.result)
    /\ UNCHANGED <<inputs, page, fetched, files>>

\* main, lines 303-308: the argument count.
CheckArgc ==
    /\ pc = "argc"
    /\ IF Len(argv) # Argc
       THEN /\ pc' = "exit"
            /\ exit_code' = 1
            /\ console' = Append(console, "Usage")
       ELSE /\ pc' = "dates"
            /\ UNCHANGED <<exit_code, console>>
    /\ UNCHANGED <<inputs, reqs, page, fetched, files>>

\* main, lines 310-319: the date format.
CheckDates ==
    /\ pc = "dates"
    /\ IF StrptimeYmd(argv[2]) /\ StrptimeYmd(argv[3])
       THEN /\ pc' = "list_repos"
            /\ UNCHANGED <<exit_code, console>>
       ELSE /\ pc' = "exit"
            /\ exit_code' = 1
            /\ console' = Append(console, "ERROR: dates")
    /\ UNCHANGED <<inputs, reqs, page, fetched, files>>

\* get_all_repositories, lines 40-68: one request and its handling; when the
\* loop is left, fetch_all_commits starts its for loop (lines 109-117).
ListReposPage ==
    /\ pc = "list_repos"
    /\ \E ans \in RepoAnswers(page) :
          LET r == repos_step(repos, page, ans) IN
          /\ reqs' = Append(reqs, Request("repos", 0, page, ans))
          /\ repos' = r.items
          /\ page' = IF r.done THEN 1 ELSE r.page
          /\ pc' = IF ~r.done THEN "list_repos"
                   ELSE IF r.items # <<>> THEN "fetch" ELSE "sort"
          /\ console' = IF ans.status # OK
                        THEN Append(console, "Error fetching repositories")
                        ELSE console
    /\ UNCHANGED <<inputs, exit_code, i, commits, all_commits, repo_commit_count, files>>

\* get_commits_from_repo, lines 85-105: one request for the commits of
\* repos[i] and its handling.
FetchCommitsPage ==
    /\ pc = "fetch"
    /\ \E ans \in CommitAnswers(repos[i], i, page) :
          LET r == commits_step(commits, page, ans) IN
          /\ reqs' = Append(reqs, Request("commits", i, page, ans))
          /\ commits' = r.items
          /\ page' = IF r.done THEN 1 ELSE r.page
          /\ pc' = IF r.done THEN "collect" ELSE "fetch"
    /\ UNCHANGED <<inputs, exit_code, console, repos, i, all_commits,
                   repo_commit_count, files>>

\* fetch_all_commits, lines 124-139 and the next turn of the for loop: the
\* commits of repos[i] are tagged, added and counted.
CollectRepo ==
    /\ pc = "collect"
    /\ IF commits # <<>>
       THEN /\ all_commits' = all_commits \o TagCommits(commits, repos[i])
            /\ repo_commit_count' =
                   SetCount(repo_commit_count, repos[i].full_name, Len(commits))
       ELSE UNCHANGED <<all_commits, repo_commit_count>>
    /\ commits' = <<>>
    /\ i' = i + 1
    /\ pc' = IF i + 1 <= Len(repos) THEN "fetch" ELSE "sort"
    /\ UNCHANGED <<inputs, exit_code, console, reqs, repos, page, files>>

\* fetch_all_commits, lines 141-144: the sort and the return to main.
SortAllCommits ==
    /\ pc = "sort"
    /\ all_commits' = SortCommits(all_commits)
    /\ pc' = "display"
    /\ UNCHANGED <<inputs, exit_code, console, reqs, repos, page, i, commits,
                   repo_commit_count, files>>

\* display_commits, lines 147-190, and main, lines 329-332: the report and,
\* when there are commits, the head of the export menu; with no commits main
\* prints "Done!" and returns (line 362).
DisplayCommits ==
    /\ pc = "display"
    /\ console' = console
                    \o <<IF all_commits = <<>> THEN "No commits found" ELSE "SUMMARY">>
                    \o (IF ExportMenuShown(all_commits) THEN <<"EXPORT OPTIONS">>
                        ELSE <<"Done!">>)
    /\ pc' = IF ExportMenuShown(all_commits) THEN "menu" ELSE "exit"
    /\ exit_code' = IF ExportMenuShown(all_commits) THEN exit_code ELSE 0
    /\ UNCHANGED <<inputs, reqs, page, fetched, files>>

\* main, lines 334-362: one turn of the export menu.  An invalid choice
\* writes nothing and asks again; after a valid one main prints "Done!" and
\* returns.
ExportMenu ==
    /\ pc = "menu"
    /\ \E choice \in Choices :
          /\ csvfile' = IF choice \in {"1", "3"} THEN export_to_csv(all_commits)
                        ELSE csvfile
          /\ mdfile' = IF choice \in {"2", "3"}
                       THEN export_to_markdown(all_commits, repo_commit_count,
                                               argv[2], argv[3])
                       ELSE mdfile
          /\ pc' = IF choice \in {"1", "2", "3", "4"} THEN "exit" ELSE "menu"
          /\ console' = IF choice \in {"1", "2", "3", "4"} THEN Append(console, "Done!")
                        ELSE console
          /\ exit_code' = IF choice \in {"1", "2", "3", "4"} THEN 0 ELSE exit_code
    /\ UNCHANGED <<inputs, reqs, page, fetched>>

Next ==
    \/ CheckConfig
    \/ ValidateToken
    \/ CheckArgc
    \/ CheckDates
    \/ ListReposPage
    \/ FetchCommitsPage
    \/ CollectRepo
    \/ SortAllCommits
    \/ DisplayCommits
    \/ ExportMenu

Spec == Init /\ [][Next]_vars

(***************************************************************************)
(* The requests of one listing, read from the record of the requests.      *)
(***************************************************************************)
\* The requests of kind "repos" (r = 0) or of the commits of repos[r].
Listing(kind, r) == SelectSeq(reqs, LAMBDA q : q.kind = kind /\ q.repo = r)

AllOK(rs) == \A k \in 1..Len(rs) : rs[k].status = OK

\* The items of the pages of rs in the order received.
RECURSIVE Received(_)
Received(rs) ==
    IF rs = <<>> THEN <<>>
    ELSE Received(SubSeq(rs, 1, Len(rs) - 1)) \o rs[Len(rs)].body

\* The requests of one listing ask for pages 1, 2, ... in turn, each page
\* after the first only after a full page answered with 200, and no listing
\* is taken up again once another has started.
PagesInTurn ==
    \A k \in 1..Len(reqs) :
        LET q == reqs[k] IN
        q.kind # "user" =>
            /\ k > 1
            /\ reqs[k - 1].kind = q.kind => reqs[k - 1].repo <= q.repo
            /\ q.kind = "repos" => reqs[k - 1].kind # "commits"
            /\ IF q.page = 1
               THEN reqs[k - 1].kind # q.kind \/ reqs[k - 1].repo < q.repo
               ELSE /\ reqs[k - 1].kind = q.kind
                    /\ reqs[k - 1].repo = q.repo
                    /\ reqs[k - 1].page = q.page - 1
                    /\ reqs[k - 1].status = OK
                    /\ Len(reqs[k - 1].body) = PerPage

\* A listing rs whose answers were all 200, with the list acc built from it:
\* acc holds the items received, in order; while the listing goes on every
\* page was full, and once it has returned only its last page was not.
PagedResult(rs, acc, returned) ==
    AllOK(rs) =>
        /\ acc = Received(rs)
        /\ \A k \in 1..(Len(rs) - 1) : Len(rs[k].body) = PerPage
        /\ returned => rs # <<>> /\ Len(rs[Len(rs)].body) < PerPage
        /\ ~returned /\ rs # <<>> => Len(rs[Len(rs)].body) = PerPage

BeforeListing == {"config", "validate", "argc", "dates"}

\* C1: both paginators, on answers that are all 200 with full pages before a
\* short or empty last page, return exactly the items received, in the order
\* received; they ask for pages 1, 2, ..., k in turn, none twice, and ask for
\* nothing after the first short or empty page.
C1_Pagination ==
    /\ PagesInTurn
    /\ pc \notin BeforeListing /\ pc # "exit" =>
           PagedResult(Listing("repos", 0), repos, pc # "list_repos")
    /\ pc \in {"fetch", "collect"} =>
           PagedResult(Listing("commits", i), commits, pc = "collect")

\* Both listings took more than one page, all answered with 200, and the
\* commits paginator has just returned.
C1_Witness ==
    /\ pc = "collect"
    /\ AllOK(Listing("repos", 0)) /\ Len(Listing("repos", 0)) > 1
    /\ AllOK(Listing("commits", i)) /\ Len(Listing("commits", i)) > 1
    /\ Len(repos) > PerPage /\ Len(commits) > PerPage

(***************************************************************************)
(* Errors of the API.                                                      *)
(***************************************************************************)
\* The commit as the API returned it, without the key "repository".
Untagged(c) == [sha |-> c.sha, date |-> c.date, src |-> c.src]

AfterLoop == {"sort", "display", "menu"}

\* The run got as far as the repository listing.
Listed == reqs # <<>> /\ reqs[1].status = OK /\ Len(reqs) > 1

\* The k-th request is for commits and was answered with an error.
CommitsError(k) == reqs[k].kind = "commits" /\ reqs[k].status # OK

\* The commits of the pages before page reqs[k].page of the same listing.
EarlierPages(k) == Received(SubSeq(reqs, k - (reqs[k].page - 1), k - 1))

\* The repositories are asked for their commits one after the other in the
\* order of the enumeration, each from page 1, and after the loop the last
\* request was for the last of them: every one of them has been asked.
EveryRepoAsked ==
    /\ \A k \in 2..Len(reqs) :
          reqs[k].kind = "commits" =>
              reqs[k].repo = IF reqs[k - 1].kind # "commits" THEN 1
                             ELSE IF reqs[k].page = 1 THEN reqs[k - 1].repo + 1
                             ELSE reqs[k - 1].repo
    /\ (pc \in AfterLoop \/ (pc = "exit" /\ Listed)) =>
          IF repos = <<>> THEN reqs[Len(reqs)].kind = "repos"
          ELSE reqs[Len(reqs)].kind = "commits" /\ reqs[Len(reqs)].repo = Len(repos)

\* C2: an error on a page of the commits of a repository ends the listing of
\* that repository only: the commits of its earlier pages are kept, the next
\* repository is asked from page 1, as is every later one, and the run does
\* not end with an error exit.
C2_CommitErrorIsolated ==
    /\ EveryRepoAsked
    /\ \A k \in 1..Len(reqs) :
          CommitsError(k) =>
              /\ k < Len(reqs) =>
                    /\ reqs[k + 1].kind = "commits"
                    /\ reqs[k + 1].repo = reqs[k].repo + 1
                    /\ reqs[k + 1].page = 1
              /\ reqs[k].page > 1 =>
                    /\ k - (reqs[k].page - 1) >= 1
                    /\ \A j \in 1..(reqs[k].page - 1) :
                          /\ reqs[k - j].kind = "commits"
                          /\ reqs[k - j].repo = reqs[k].repo
                          /\ reqs[k - j].page = reqs[k].page - j
                    /\ IF reqs[k].repo = i /\ pc = "collect"
                       THEN commits = EarlierPages(k)
                       ELSE {EarlierPages(k)[n] : n \in 1..Len(EarlierPages(k))}
                              \subseteq
                            {Untagged(all_commits[n]) : n \in 1..Len(all_commits)}
    /\ (reqs # <<>> /\ CommitsError(Len(reqs))) =>
          /\ pc = "collect" => reqs[Len(reqs)].repo = i /\ commits = EarlierPages(Len(reqs))
          /\ pc = "fetch" => reqs[Len(reqs)].repo = i - 1 /\ page = 1 /\ i <= Len(repos)
          /\ pc \in AfterLoop \cup {"exit"} => reqs[Len(reqs)].repo = Len(repos)
          /\ pc \in {"collect", "fetch", "exit"} \cup AfterLoop
    /\ (pc = "exit" /\ Listed) => exit_code = 0 /\ console[Len(console)] = "Done!"

\* The run is over; the second page of the commits of a repository that is
\* not the last one was answered with an error.
C2_Witness ==
    /\ pc = "exit"
    /\ \E k \in 1..Len(reqs) :
          CommitsError(k) /\ reqs[k].page > 1 /\ reqs[k].repo < Len(repos)

\* C3 as claimed: a run that ends on a wrong argument count or a malformed
\* date has issued no HTTP request.
C3_NoRequestBeforeUsageExit ==
    (/\ pc = "exit"
     /\ ~(Len(argv) = Argc /\ StrptimeYmd(argv[2]) /\ StrptimeYmd(argv[3])))
        => reqs = <<>>

\* C4: after a 401 to the validation request the run reports "Invalid token"
\* and exits with code 1 having asked for no repository and no commit; and no
\* repository or commit is ever asked for unless the validation request, the
\* first and only one of its kind, was answered with 200.
C4_NoFetchWithoutValidToken ==
    /\ (reqs # <<>> /\ reqs[1].status = Unauthorized) =>
           /\ pc = "exit" /\ exit_code = 1
           /\ console[Len(console)] = "Invalid token"
           /\ Len(reqs) = 1
    /\ \A k \in 1..Len(reqs) :
           IF k = 1 THEN reqs[k].kind = "user"
           ELSE reqs[k].kind \in {"repos", "commits"} /\ reqs[1].status = OK

\* The validation request was answered with 401 and the run is over.
C4_Witness ==
    /\ pc = "exit"
    /\ reqs # <<>> /\ reqs[1].kind = "user" /\ reqs[1].status = Unauthorized

\* The k-th request is for repositories and was answered with an error.
ReposError(k) == reqs[k].kind = "repos" /\ reqs[k].status # OK

Returned == pc \in {"display", "menu"} \/ (pc = "exit" /\ Listed)

\* The instant a timestamp "YYYY-MM-DDTHH:MM:SSZ" names: year, month, day,
\* hour, minute and second as numbers.
Instant(d) ==
    LET n(a, b) == NumVal(SubSeq(d, a, b)) IN
    <<n(1, 4), n(6, 7), n(9, 10), n(12, 13), n(15, 16), n(18, 19)>>

\* The instant s is not before the instant t.
NotBefore(s, t) ==
    \/ s = t
    \/ \E f \in 1..Len(s) : s[f] > t[f] /\ \A g \in 1..(f - 1) : s[g] = t[g]

Range(q) == {q[k] : k \in 1..Len(q)}

Count(q, x) == Len(SelectSeq(q, LAMBDA e : e = x))

\* a and b hold the same items the same number of times.
IsPermutation(a, b) ==
    /\ Len(a) = Len(b)
    /\ IF Cardinality(Range(a)) = Len(a)
       THEN Range(a) = Range(b)
       ELSE \A x \in Range(a) : Count(a, x) = Count(b, x)

\* The commits of all the listings in the order received.
Collected ==
    Received(SelectSeq(reqs, LAMBDA q : q.kind = "commits" /\ q.body # <<>>))

\* C5: the list fetch_all_commits returns is in descending order of the
\* committer timestamps, each commit at least as late as the next, and is a
\* permutation of the commits collected from all the repositories.
C5_NewestFirst ==
    Returned =>
        /\ \A k \in 1..(Len(all_commits) - 1) :
              \/ all_commits[k].date = all_commits[k + 1].date
              \/ NotBefore(Instant(all_commits[k].date), Instant(all_commits[k + 1].date))
        /\ IsPermutation([k \in 1..Len(all_commits) |-> Untagged(all_commits[k])],
                         Collected)

\* The list returned holds commits of two repositories and is not in the
\* order in which they were collected.
C5_Witness ==
    /\ Returned
    /\ \E k \in 1..Len(all_commits) : all_commits[k].src # all_commits[1].src
    /\ [k \in 1..Len(all_commits) |-> Untagged(all_commits[k])] # Collected

\* The checks of main that end the run with exit code 1.
ChecksPass ==
    /\ token # "" /\ username # ""
    /\ reqs # <<>> /\ reqs[1].status = OK
    /\ Len(argv) = Argc /\ StrptimeYmd(argv[2]) /\ StrptimeYmd(argv[3])

RunStart(cs, k) ==
    k = 1 \/ cs[k].repository.full_name # cs[k - 1].repository.full_name

\* The headings and commit lines expected for the commits lo..hi: a heading
\* right before the first commit of each run.
RECURSIVE ExpectedShape(_, _, _)
ExpectedShape(cs, lo, hi) ==
    IF lo > hi THEN <<>>
    ELSE IF lo = hi
         THEN (IF RunStart(cs, lo) THEN << <<"###", cs[lo].repository.full_name>> >>
               ELSE <<>>) \o << <<"-", cs[lo].sha>> >>
    ELSE ExpectedShape(cs, lo, (lo + hi) \div 2)
           \o ExpectedShape(cs, (lo + hi) \div 2 + 1, hi)

\* The headings and commit lines of the Markdown file.
Detail == SelectSeq(mdfile, LAMBDA l : l.kind \in {"heading", "commit"})

\* C8: the Markdown file has as many "###" headings as the list has maximal
\* runs of commits of one repository, and each heading comes right before the
\* line of the first commit of its run.
C8_HeadingPerRun ==
    mdfile # <<>> =>
        /\ Len(SelectSeq(mdfile, LAMBDA l : l.kind = "heading"))
             = Cardinality({k \in 1..Len(all_commits) : RunStart(all_commits, k)})
        /\ LET lines == Detail IN
           [p \in 1..Len(lines) |->
              IF lines[p].kind = "heading" THEN <<"###", lines[p].repo>>
              ELSE <<"-", lines[p].sha>>]
             = ExpectedShape(all_commits, 1, Len(all_commits))

\* A Markdown file with more headings than repositories.
C8_Witness ==
    /\ mdfile # <<>>
    /\ Cardinality({k \in 1..Len(all_commits) : RunStart(all_commits, k)})
         > Cardinality({all_commits[k].repository.full_name : k \in 1..Len(all_commits)})

RECURSIVE SumCounts(_)
SumCounts(rc) ==
    IF rc = <<>> THEN 0 ELSE rc[1].count + SumCounts(Tail(rc))

\* C9 as claimed: the count mapping has a key for exactly the names with a
\* commit in the list returned, each value is the number of commits of that
\* name in the list, and the values sum to the length of the list.
C9_CountsMatchList ==
    Returned =>
        /\ {repo_commit_count[k].name : k \in 1..Len(repo_commit_count)}
             = {all_commits[k].repository.full_name : k \in 1..Len(all_commits)}
        /\ \A k \in 1..Len(repo_commit_count) :
              repo_commit_count[k].count =
                  Len(SelectSeq(all_commits,
                        LAMBDA c : c.repository.full_name = repo_commit_count[k].name))
        /\ SumCounts(repo_commit_count) = Len(all_commits)

\* C10: every commit of the aggregated list, at every moment, has the key
\* "repository" with the full name, the visibility and the URL of the
\* repository whose listing returned it.
C10_TaggedWithSource ==
    \A k \in 1..Len(all_commits) :
        LET c == all_commits[k] IN
        /\ "repository" \in DOMAIN c
        /\ c.src \in 1..Len(repos)
        /\ c.repository = [full_name |-> repos[c.src].full_name,
                           private |-> repos[c.src].private,
                           url |-> repos[c.src].html_url]

\* The list returned holds commits of two repositories of different names.
C10_Witness ==
    /\ Returned
    /\ \E k \in 1..Len(all_commits) :
          all_commits[k].repository.full_name # all_commits[1].repository.full_name
====
